---- MODULE Spec2Model ----
(***************************************************************************)
(* State-machine model of the chess game: the rules engine of              *)
(* src/utils/chess-logic.ts and the game-state coordinator (the ChessGame  *)
(* component) of src/unnamed/part_000.                                     *)
(*                                                                         *)
(* Coordinates are 0-based as in the source: a square is <<x, y>> with x   *)
(* the file and y the rank index, and the board is indexed board[y][x].    *)
(***************************************************************************)
EXTENDS Integers, Sequences, FiniteSets, TLC

(***************************************************************************)
(* Bounds of the model.                                                    *)
(***************************************************************************)
\* Accepted moves explored from the initial position.
MaxMoves == 4
\* Pending animation-end callbacks (setTimeout) alive at the same time.
MaxTimers == 1
\* Updates of handleSquareClick queued between two renders.
MaxQueued == 1
\* The same two bounds where the animation callbacks are interleaved with
\* further moves.
MaxAnimMoves == 2
MaxAnimTimers == 2
\* Accepted moves explored where a check given by the fourth move is to be
\* answered by the fifth and the sixth follows.
MaxPlayMoves == 6
\* Accepted moves explored where the side mated by the fourth move is to
\* move.
MaxMateMoves == 5

----------------------------------------------------------------------------
(***************************************************************************)
(* Position model (chess-logic.ts, lines 1-72).                            *)
(***************************************************************************)
Idx == 0..7

\* null of the source where a piece is expected: an empty cell, no capture.
Null == [id |-> "null"]

\* null of the source where a square is expected: no selection, no king found.
NoSquare == <<>>

Opponent(color) == IF color = "white" THEN "black" ELSE "white"

\* A piece literal of initialBoard. hasMoved is absent (undefined, falsy) in
\* the literals of the source; it is modelled as FALSE.
Mk(type, color, x, y, id) ==
    [type |-> type, color |-> color, position |-> <<x, y>>,
     hasMoved |-> FALSE, id |-> id]

BackRank == <<"rook", "knight", "bishop", "queen", "king", "bishop", "knight", "rook">>
BackIds == <<"r1", "n1", "b1", "q", "k", "b2", "n2", "r2">>
PawnIds == <<"p1", "p2", "p3", "p4", "p5", "p6", "p7", "p8">>

initialBoard ==
    [y \in Idx |->
        [x \in Idx |->
            CASE y = 0 -> Mk(BackRank[x + 1], "black", x, 0, "b" \o BackIds[x + 1])
              [] y = 1 -> Mk("pawn", "black", x, 1, "b" \o PawnIds[x + 1])
              [] y = 6 -> Mk("pawn", "white", x, 6, "w" \o PawnIds[x + 1])
              [] y = 7 -> Mk(BackRank[x + 1], "white", x, 7, "w" \o BackIds[x + 1])
              [] OTHER -> Null]]

Abs(n) == IF n < 0 THEN -n ELSE n
Sign(n) == IF n < 0 THEN -1 ELSE IF n > 0 THEN 1 ELSE 0

----------------------------------------------------------------------------
(***************************************************************************)
(* Move legality evaluator (chess-logic.ts, lines 74-151).                 *)
(***************************************************************************)
\* The while loop of isPathClear: (x, y) walks by (dx, dy) until it is the
\* destination; an occupied square on the way makes the path not clear.
RECURSIVE PathWalk(_, _, _, _, _, _, _)
PathWalk(board, x, y, dx, dy, toX, toY) ==
    IF x = toX /\ y = toY THEN TRUE
    ELSE IF board[y][x] # Null THEN FALSE
    ELSE PathWalk(board, x + dx, y + dy, dx, dy, toX, toY)

\* isPathClear that never finds a piece on the way.
isPathClear_Always(board, from, to) == TRUE

\* isPathClear that looks at the first square of the way only.
isPathClear_FirstOnly(board, from, to) ==
    LET x == from[1] + Sign(to[1] - from[1])
        y == from[2] + Sign(to[2] - from[2])
    IN  (x = to[1] /\ y = to[2]) \/ board[y][x] = Null

isPathClear(board, from, to) ==
    LET dx == Sign(to[1] - from[1])
        dy == Sign(to[2] - from[2])
    IN  PathWalk(board, from[1] + dx, from[2] + dy, dx, dy, to[1], to[2])

\* isValidMove asking for an empty square in front of a pawn that advances
\* two squares.
isValidMove_PawnPathCheck(board, from, to, piece) ==
    LET fromX == from[1]
        fromY == from[2]
        toX == to[1]
        toY == to[2]
        dx == toX - fromX
        dy == toY - fromY
        targetPiece == board[toY][toX]
    IN  IF fromX = toX /\ fromY = toY THEN FALSE
        ELSE IF targetPiece # Null /\ targetPiece.color = piece.color THEN FALSE
        ELSE CASE piece.type = "pawn" ->
                    LET direction == IF piece.color = "white" THEN -1 ELSE 1
                        startRow == IF piece.color = "white" THEN 6 ELSE 1
                    IN  IF dx = 0
                        THEN \/ (dy = direction /\ targetPiece = Null)
                             \/ (/\ fromY = startRow /\ dy = 2 * direction /\ targetPiece = Null
                                 /\ board[fromY + direction][fromX] = Null)
                        ELSE Abs(dx) = 1 /\ dy = direction /\ targetPiece # Null
               [] piece.type = "rook" ->
                    IF dx = 0 \/ dy = 0 THEN isPathClear(board, from, to) ELSE FALSE
               [] piece.type = "knight" ->
                    \/ (Abs(dx) = 2 /\ Abs(dy) = 1)
                    \/ (Abs(dx) = 1 /\ Abs(dy) = 2)
               [] piece.type = "bishop" ->
                    IF Abs(dx) = Abs(dy) THEN isPathClear(board, from, to) ELSE FALSE
               [] piece.type = "queen" ->
                    IF dx = 0 \/ dy = 0 \/ Abs(dx) = Abs(dy)
                    THEN isPathClear(board, from, to) ELSE FALSE
               [] piece.type = "king" -> Abs(dx) <= 1 /\ Abs(dy) <= 1
               [] OTHER -> FALSE

isValidMove(board, from, to, piece) ==
    LET fromX == from[1]
        fromY == from[2]
        toX == to[1]
        toY == to[2]
        dx == toX - fromX
        dy == toY - fromY
        targetPiece == board[toY][toX]
    IN  IF fromX = toX /\ fromY = toY THEN FALSE
        ELSE IF targetPiece # Null /\ targetPiece.color = piece.color THEN FALSE
        ELSE CASE piece.type = "pawn" ->
                    LET direction == IF piece.color = "white" THEN -1 ELSE 1
                        startRow == IF piece.color = "white" THEN 6 ELSE 1
                    IN  IF dx = 0
                        THEN \/ (dy = direction /\ targetPiece = Null)
                             \/ (fromY = startRow /\ dy = 2 * direction /\ targetPiece = Null)
                        ELSE Abs(dx) = 1 /\ dy = direction /\ targetPiece # Null
               [] piece.type = "rook" ->
                    IF dx = 0 \/ dy = 0 THEN isPathClear(board, from, to) ELSE FALSE
               [] piece.type = "knight" ->
                    \/ (Abs(dx) = 2 /\ Abs(dy) = 1)
                    \/ (Abs(dx) = 1 /\ Abs(dy) = 2)
               [] piece.type = "bishop" ->
                    IF Abs(dx) = Abs(dy) THEN isPathClear(board, from, to) ELSE FALSE
               [] piece.type = "queen" ->
                    IF dx = 0 \/ dy = 0 \/ Abs(dx) = Abs(dy)
                    THEN isPathClear(board, from, to) ELSE FALSE
               [] piece.type = "king" -> Abs(dx) <= 1 /\ Abs(dy) <= 1
               [] OTHER -> FALSE

----------------------------------------------------------------------------
(***************************************************************************)
(* Attack/check detector and legal-move generator (lines 153-239).         *)
(***************************************************************************)
\* Scan order of findKing, isInCheck and isCheckmate: y outer, x inner.
RowScan == [i \in 1..64 |-> <<(i - 1) % 8, (i - 1) \div 8>>]
\* Scan order of getValidMoves: x outer, y inner.
ColScan == [i \in 1..64 |-> <<(i - 1) \div 8, (i - 1) % 8>>]

findKing(board, color) ==
    LET IsKing(sq) == LET piece == board[sq[2]][sq[1]]
                      IN  piece # Null /\ piece.type = "king" /\ piece.color = color
        found == SelectSeq(RowScan, IsKing)
    IN  IF found = <<>> THEN NoSquare ELSE found[1]

\* isInCheck that finds no piece attacking the king.
isInCheck_Never(board, color) == FALSE

isInCheck(board, color) ==
    LET kingPos == findKing(board, color)
        opponentColor == IF color = "white" THEN "black" ELSE "white"
    IN  IF kingPos = NoSquare THEN FALSE
        ELSE \E y \in Idx : \E x \in Idx :
                LET piece == board[y][x]
                IN  /\ piece # Null
                    /\ piece.color = opponentColor
                    /\ isValidMove(board, <<x, y>>, kingPos, piece)

\* The copy of the board with the origin not cleared.
MovedBoard_KeepOrigin(board, from, to) ==
    [board EXCEPT ![to[2]][to[1]] = board[from[2]][from[1]]]

\* The copy of the board with the move made: the piece is written to the
\* destination first, then the origin is cleared.
MovedBoard(board, from, to) ==
    LET piece == board[from[2]][from[1]]
        placed == [board EXCEPT ![to[2]][to[1]] = piece]
    IN  [placed EXCEPT ![from[2]][from[1]] = Null]

\* wouldBeInCheck that finds no move exposing the king.
wouldBeInCheck_Never(board, from, to, color) == FALSE

wouldBeInCheck(board, from, to, color) ==
    isInCheck(MovedBoard(board, from, to), color)

\* getValidMoves scanning the board row by row: y outer, x inner.
getValidMoves_RowScan(board, position) ==
    LET piece == board[position[2]][position[1]]
        Keep(to) == /\ isValidMove(board, position, to, piece)
                    /\ ~wouldBeInCheck(board, position, to, piece.color)
    IN  IF piece = Null THEN <<>> ELSE SelectSeq(RowScan, Keep)

getValidMoves(board, position) ==
    LET piece == board[position[2]][position[1]]
        Keep(to) == /\ isValidMove(board, position, to, piece)
                    /\ ~wouldBeInCheck(board, position, to, piece.color)
    IN  IF piece = Null THEN <<>> ELSE SelectSeq(ColScan, Keep)

isCheckmate(board, color) ==
    IF ~isInCheck(board, color) THEN FALSE
    ELSE \A y \in Idx : \A x \in Idx :
            LET piece == board[y][x]
            IN  (piece # Null /\ piece.color = color)
                    => Len(getValidMoves(board, <<x, y>>)) = 0

----------------------------------------------------------------------------
(***************************************************************************)
(* Move-history formatter (chess-logic.ts, lines 241-255).                 *)
(***************************************************************************)
files == <<"a", "b", "c", "d", "e", "f", "g", "h">>

\* String(n) for the digits 0..9 that `${8 - y}` can produce.
Digit(n) == <<"0", "1", "2", "3", "4", "5", "6", "7", "8", "9">>[n + 1]

\* type.charAt(0) of the six piece type names.
CharAt0(type) ==
    CASE type = "pawn" -> "p"
      [] type = "rook" -> "r"
      [] type = "knight" -> "k"
      [] type = "bishop" -> "b"
      [] type = "queen" -> "q"
      [] type = "king" -> "k"

ToUpperCase(c) ==
    CASE c = "p" -> "P"
      [] c = "r" -> "R"
      [] c = "k" -> "K"
      [] c = "b" -> "B"
      [] c = "q" -> "Q"

\* formatMove naming the origin square instead of the destination.
formatMove_FromSquare(from, to, piece, captured) ==
    LET fromSquare == files[from[1] + 1] \o Digit(8 - from[2])
        pieceSymbol == IF piece.type = "pawn" THEN "" ELSE ToUpperCase(CharAt0(piece.type))
        captureSymbol == IF captured # Null THEN "x" ELSE ""
    IN  pieceSymbol \o captureSymbol \o fromSquare

\* captured is a piece or Null (undefined in the source).
formatMove(from, to, piece, captured) ==
    LET toSquare == files[to[1] + 1] \o Digit(8 - to[2])
        pieceSymbol == IF piece.type = "pawn" THEN "" ELSE ToUpperCase(CharAt0(piece.type))
        captureSymbol == IF captured # Null THEN "x" ELSE ""
    IN  pieceSymbol \o captureSymbol \o toSquare

----------------------------------------------------------------------------
(***************************************************************************)
(* Game-state coordinator (part_000, ChessGame, lines 19-153).             *)
(***************************************************************************)
VARIABLES
    gameState,        \* the GameState held by useState (line 20) with every
                      \* queued update applied: the state the next update gets
    rendered,         \* the GameState of the last render: the gameState that
                      \* the closures of lines 34-48 and 50-140 read
    boardChanged,     \* gameState.board is another array than rendered.board
    queued,           \* number of updates of handleSquareClick since the
                      \* last render that return a new GameState
    updatePending,    \* an update of the component's state is queued and
                      \* no render has processed it
    deferred,         \* what the updater bodies of handleSquareClick that
                      \* have not run yet will do when they run, in order
    animatingPieces,  \* set of keys of pieces being animated (line 30)
    timers,           \* pending setTimeout callbacks, in firing order (line 90)
    effectPending,    \* the status effect (line 34) is scheduled to run
    initialBoardNow,  \* the content of the exported array initialBoard
    call              \* a direct call of a rules-engine function and its result

game == <<gameState, rendered, boardChanged, queued, updatePending, deferred,
          animatingPieces, timers, effectPending, initialBoardNow>>
vars == <<gameState, rendered, boardChanged, queued, updatePending, deferred,
          animatingPieces, timers, effectPending, initialBoardNow, call>>

Squares == Idx \X Idx

\* Squares the modelled player activates, those of 1.f3 e5 2.g4 Qh4 and the
\* white king's: f2, f3, g2, g4, e7, e5, d8, h4 and e1.
ClickSquares ==
    {<<5, 6>>, <<5, 5>>, <<6, 6>>, <<6, 4>>,
     <<4, 1>>, <<4, 3>>, <<3, 0>>, <<7, 4>>, <<4, 7>>}

initialState ==
    [board |-> initialBoard,
     currentPlayer |-> "white",
     selectedPiece |-> NoSquare,
     validMoves |-> <<>>,
     gameStatus |-> "playing",
     capturedPieces |-> <<>>,
     moveHistory |-> <<>>]

\* The key `${x}-${y}` of a square; the pair stands for the string.
pieceKey(sq) == sq

\* prevState.validMoves.some(([moveX, moveY]) => moveX === x && moveY === y)
isValid(prevState, x, y) ==
    \E i \in 1..Len(prevState.validMoves) : prevState.validMoves[i] = <<x, y>>

\* The move branch taken for every shape-legal destination of the selected
\* piece instead of the stored legal moves.
AcceptsMove_AnyShape(prevState, x, y) ==
    LET sel == prevState.selectedPiece
    IN  /\ sel # NoSquare
        /\ sel # <<x, y>>
        /\ prevState.board[sel[2]][sel[1]] # Null
        /\ isValidMove(prevState.board, sel, <<x, y>>, prevState.board[sel[2]][sel[1]])

\* The branch of the updater that applies a move (lines 80-120) is taken.
AcceptsMove(prevState, x, y) ==
    /\ prevState.selectedPiece # NoSquare
    /\ prevState.selectedPiece # <<x, y>>
    /\ isValid(prevState, x, y)
    /\ prevState.board[prevState.selectedPiece[2]][prevState.selectedPiece[1]] # Null

\* The moved piece written without its new position.
movedPiece_NoPosition(movingPiece, x, y) == [movingPiece EXCEPT !.hasMoved = TRUE]

\* The piece written to the destination (line 99).
movedPiece(movingPiece, x, y) ==
    [movingPiece EXCEPT !.position = <<x, y>>, !.hasMoved = TRUE]

\* The copy of the board with the piece moved (lines 81-100).
newBoard(prevState, x, y) ==
    LET sel == prevState.selectedPiece
        movingPiece == prevState.board[sel[2]][sel[1]]
        placed == [prevState.board EXCEPT ![y][x] = movedPiece(movingPiece, x, y)]
    IN  [placed EXCEPT ![sel[2]][sel[1]] = Null]

\* The move log replaced by the new entry instead of extended by it.
newMoveHistory_Replace(prevState, x, y) ==
    LET sel == prevState.selectedPiece
    IN  <<formatMove(sel, <<x, y>>, prevState.board[sel[2]][sel[1]],
                     prevState.board[y][x])>>

\* The move log with the notation of the move appended (lines 103-104).
newMoveHistory(prevState, x, y) ==
    LET sel == prevState.selectedPiece
        movingPiece == prevState.board[sel[2]][sel[1]]
        capturedPiece == prevState.board[y][x]
        moveNotation == formatMove(sel, <<x, y>>, movingPiece, capturedPiece)
    IN  Append(prevState.moveHistory, moveNotation)

\* The captured pieces without the piece of the destination.
newCapturedPieces_Drop(prevState, x, y) == prevState.capturedPieces

\* The captured pieces with the piece of the destination, if any (lines 107-109).
newCapturedPieces(prevState, x, y) ==
    LET capturedPiece == prevState.board[y][x]
    IN  IF capturedPiece # Null
        THEN Append(prevState.capturedPieces, capturedPiece)
        ELSE prevState.capturedPieces

\* The turn not passed to the other player.
nextPlayer_Same(prevState) == prevState.currentPlayer

\* The player to move after the move (line 114).
nextPlayer(prevState) ==
    IF prevState.currentPlayer = "white" THEN "black" ELSE "white"

\* The state returned by the move branch (lines 111-119).
ApplyMove(prevState, x, y) ==
    [prevState EXCEPT
        !.board = newBoard(prevState, x, y),
        !.currentPlayer = nextPlayer(prevState),
        !.selectedPiece = NoSquare,
        !.validMoves = <<>>,
        !.capturedPieces = newCapturedPieces(prevState, x, y),
        !.moveHistory = newMoveHistory(prevState, x, y)]

\* updater selecting a piece of either color when nothing is selected.
updater_AnyPiece(prevState, x, y) ==
    LET piece == prevState.board[y][x]
        ownPiece == piece # Null /\ piece.color = prevState.currentPlayer
        selected == [prevState EXCEPT
                        !.selectedPiece = <<x, y>>,
                        !.validMoves = getValidMoves(prevState.board, <<x, y>>)]
        cleared == [prevState EXCEPT !.selectedPiece = NoSquare, !.validMoves = <<>>]
    IN  IF prevState.selectedPiece = NoSquare
        THEN IF piece # Null THEN selected ELSE prevState
        ELSE IF prevState.selectedPiece = <<x, y>> THEN cleared
        ELSE IF AcceptsMove(prevState, x, y) THEN ApplyMove(prevState, x, y)
        ELSE IF ownPiece THEN selected
        ELSE cleared

\* updater that keeps the stored legal moves when another own piece is
\* selected instead of computing those of the new square.
updater_StaleMoves(prevState, x, y) ==
    LET piece == prevState.board[y][x]
        ownPiece == piece # Null /\ piece.color = prevState.currentPlayer
        cleared == [prevState EXCEPT !.selectedPiece = NoSquare, !.validMoves = <<>>]
    IN  IF prevState.selectedPiece = NoSquare
        THEN IF ownPiece
             THEN [prevState EXCEPT
                      !.selectedPiece = <<x, y>>,
                      !.validMoves = getValidMoves(prevState.board, <<x, y>>)]
             ELSE prevState
        ELSE IF prevState.selectedPiece = <<x, y>> THEN cleared
        ELSE IF AcceptsMove(prevState, x, y) THEN ApplyMove(prevState, x, y)
        ELSE IF ownPiece THEN [prevState EXCEPT !.selectedPiece = <<x, y>>]
        ELSE cleared

\* prevState.board[y][x] (line 55) for a row index y of the board and any
\* integer x: an index outside the row reads undefined, which is falsy as
\* null is.
elementAt(board, x, y) == IF x \in Idx THEN board[y][x] ELSE Null

\* prevState.board[y][x] (line 55) throws: a row index outside the board
\* reads undefined, and reading an element of undefined is a TypeError.
indexThrows(x, y) == y \notin Idx

\* The updater passed to setGameState by handleSquareClick (lines 54-137).
updater(prevState, x, y) ==
    LET piece == elementAt(prevState.board, x, y)
        ownPiece == piece # Null /\ piece.color = prevState.currentPlayer
        selected == [prevState EXCEPT
                        !.selectedPiece = <<x, y>>,
                        !.validMoves = getValidMoves(prevState.board, <<x, y>>)]
        cleared == [prevState EXCEPT !.selectedPiece = NoSquare, !.validMoves = <<>>]
    IN  IF prevState.selectedPiece = NoSquare
        THEN IF ownPiece THEN selected ELSE prevState
        ELSE IF prevState.selectedPiece = <<x, y>> THEN cleared
        ELSE IF AcceptsMove(prevState, x, y) THEN ApplyMove(prevState, x, y)
        ELSE IF ownPiece THEN selected
        ELSE cleared

\* The GameState after handleSquareClick(x, y) (lines 50-140) of a render
\* whose gameState.gameStatus is status, state being the state its updater
\* gets: nothing is queued when the status read is checkmate (line 52).
activate(status, state, x, y) ==
    IF status = "checkmate" THEN state ELSE updater(state, x, y)

\* handleSquareClick(x, y) applies a move (the branch of lines 85-120 runs).
MoveAccepted(status, state, x, y) ==
    status # "checkmate" /\ AcceptsMove(state, x, y)

\* The TypeError thrown by the updater of handleSquareClick (line 55).
Thrown == [op |-> "handleSquareClick", error |-> "TypeError"]

\* The callbacks one accepted move schedules for its key (line 90): the
\* updater that holds setTimeout is invoked once, or twice on the same
\* prevState.
Scheduled(key) == {<<key>>, <<key, key>>}

\* What running the body of a queued updater does besides returning the next
\* state: an accepted move calls setAnimatingPieces and setTimeout with its
\* key (lines 87-96), a row index outside the board throws (line 55).
Animate(key) == [op |-> "animate", key |-> key]
Throw(x, y) == [op |-> "throw", key |-> <<x, y>>]

\* The deferred bodies in front of the first one that throws.
RECURSIVE RunBefore(_)
RunBefore(items) ==
    IF items = <<>> \/ Head(items).op = "throw"
    THEN <<>>
    ELSE <<Head(items)>> \o RunBefore(Tail(items))

ThrowDeferred == Len(RunBefore(deferred)) < Len(deferred)

\* The keys the bodies add to animatingPieces (line 88).
RECURSIVE Keys(_)
Keys(items) ==
    IF items = <<>> THEN {} ELSE {Head(items).key} \cup Keys(Tail(items))

\* The callbacks the bodies schedule (line 90), in the order of the queue.
RECURSIVE Callbacks(_)
Callbacks(items) ==
    IF items = <<>>
    THEN {<<>>}
    ELSE {a \o b : a \in Scheduled(Head(items).key), b \in Callbacks(Tail(items))}

\* The exported array initialBoard after an accepted move from prevState:
\* the move being made in copies of the rows (line 81), it is not written.
initialBoardAfter_InPlace(prevState, next) ==
    IF prevState.moveHistory = <<>> THEN next.board ELSE initialBoardNow

initialBoardAfter(prevState, next) == initialBoardNow

\* handleSquareClick(x, y) (lines 50-140). The handler returns at line 52 on
\* the gameStatus of the render the callback belongs to (dependency list of
\* line 140), or queues the updater of line 54 and returns. gameState is the
\* pending state: the state the updater returns from the one the updates
\* queued before it give. The body of the updater (lines 55-137) runs when
\* the queue is processed: in the call itself while no update is pending,
\* or in the next render. Nothing in this file decides which. Its calls of
\* setAnimatingPieces and setTimeout (lines 87-96) happen when it runs, so
\* in the second case they are deferred to the render. No line compares x
\* or y with the board's range: the body of a call with a row index outside
\* the board throws a TypeError (line 55). The handler has returned by
\* then: the error of an updater is raised by the render that processes
\* the queue, also when the body was tried in the call.
handleSquareClick(x, y) ==
    IF rendered.gameStatus = "checkmate"
    THEN UNCHANGED vars
    ELSE IF indexThrows(x, y)
    THEN /\ deferred' = Append(deferred, Throw(x, y))
         /\ updatePending' = TRUE
         /\ UNCHANGED <<gameState, rendered, boardChanged, queued, animatingPieces,
                        timers, effectPending, initialBoardNow, call>>
    ELSE \/ /\ ~updatePending
            /\ gameState' = activate(rendered.gameStatus, gameState, x, y)
            /\ queued' = IF gameState' = gameState THEN queued ELSE queued + 1
            /\ updatePending' = (gameState' # gameState)
            /\ IF MoveAccepted(rendered.gameStatus, gameState, x, y)
               THEN /\ animatingPieces' =
                           animatingPieces \cup {pieceKey(gameState.selectedPiece)}
                    /\ \E cbs \in Scheduled(pieceKey(gameState.selectedPiece)) :
                           timers' = timers \o cbs
                    /\ boardChanged' = TRUE
                    /\ initialBoardNow' = initialBoardAfter(gameState, gameState')
               ELSE UNCHANGED <<animatingPieces, timers, boardChanged, initialBoardNow>>
            /\ UNCHANGED <<rendered, effectPending, deferred, call>>
         \/ /\ updatePending' = TRUE
            /\ gameState' = activate(rendered.gameStatus, gameState, x, y)
            /\ queued' = IF gameState' = gameState THEN queued ELSE queued + 1
            /\ IF MoveAccepted(rendered.gameStatus, gameState, x, y)
               THEN /\ deferred' = Append(deferred,
                                          Animate(pieceKey(gameState.selectedPiece)))
                    /\ boardChanged' = TRUE
                    /\ initialBoardNow' = initialBoardAfter(gameState, gameState')
               ELSE UNCHANGED <<deferred, boardChanged, initialBoardNow>>
            /\ UNCHANGED <<rendered, animatingPieces, timers, effectPending, call>>

\* newStatus testing inCheck before inCheckmate.
newStatus_CheckFirst(board, currentPlayer) ==
    IF isInCheck(board, currentPlayer) THEN "check"
    ELSE IF isCheckmate(board, currentPlayer) THEN "checkmate"
    ELSE "playing"

\* newStatus telling stalemate apart: not in check and no piece of the
\* player has a move.
newStatus_WithStalemate(board, currentPlayer) ==
    LET inCheck == isInCheck(board, currentPlayer)
        noMove == \A y \in Idx : \A x \in Idx :
                     (board[y][x] # Null /\ board[y][x].color = currentPlayer)
                         => Len(getValidMoves(board, <<x, y>>)) = 0
    IN  IF inCheck /\ noMove THEN "checkmate"
        ELSE IF inCheck THEN "check"
        ELSE IF noMove THEN "stalemate"
        ELSE "playing"

\* The status the effect computes (lines 35-43).
newStatus(board, currentPlayer) ==
    LET inCheck == isInCheck(board, currentPlayer)
        inCheckmate == isCheckmate(board, currentPlayer)
    IN  IF inCheckmate THEN "checkmate"
        ELSE IF inCheck THEN "check"
        ELSE "playing"

\* A render of ChessGame (lines 19-48): React processes the queue, running
\* the updater bodies not run yet, so their calls of setAnimatingPieces and
\* setTimeout (lines 87-96) are made now, after every update of
\* animatingPieces queued before the render. useState returns the state with
\* the queued updates applied, the closures of the effect and of
\* handleSquareClick are made over it, and the effect is scheduled when
\* board or currentPlayer is not the one of the render before (dependency
\* list of line 48). The effect of a render has run before the next render.
\* A body that throws (line 55) ends the render: the bodies in front of it
\* have run, nothing is committed.
render ==
    /\ ~effectPending
    /\ updatePending
    /\ deferred' = <<>>
    /\ \E cbs \in Callbacks(RunBefore(deferred)) : timers' = timers \o cbs
    /\ IF ThrowDeferred
       THEN /\ call' = Thrown
            /\ UNCHANGED <<gameState, rendered, boardChanged, queued, updatePending,
                           animatingPieces, effectPending, initialBoardNow>>
       ELSE /\ rendered' = gameState
            /\ boardChanged' = FALSE
            /\ queued' = 0
            /\ updatePending' = FALSE
            /\ animatingPieces' = animatingPieces \cup Keys(deferred)
            /\ effectPending' = (boardChanged
                                    \/ gameState.currentPlayer # rendered.currentPlayer)
            /\ UNCHANGED <<gameState, initialBoardNow, call>>

\* The effect keyed on board and currentPlayer (lines 34-48): it computes
\* the status from the board and the player of its render, compares it with
\* the gameStatus of its render (line 45) and queues the update of line 46,
\* which is applied to the pending state.
statusEffect ==
    /\ effectPending
    /\ effectPending' = FALSE
    /\ LET status == newStatus(rendered.board, rendered.currentPlayer)
       IN  IF status # rendered.gameStatus
           THEN /\ gameState' = [gameState EXCEPT !.gameStatus = status]
                /\ updatePending' = TRUE
           ELSE UNCHANGED <<gameState, updatePending>>
    /\ UNCHANGED <<rendered, boardChanged, queued, deferred, animatingPieces, timers,
                   initialBoardNow, call>>

\* The callback setting the GameState as well: it drops the selection.
animationEnd_Deselect ==
    /\ timers # <<>>
    /\ animatingPieces' = animatingPieces \ {Head(timers)}
    /\ timers' = Tail(timers)
    /\ updatePending' = TRUE
    /\ gameState' = [gameState EXCEPT !.selectedPiece = NoSquare, !.validMoves = <<>>]
    /\ UNCHANGED <<rendered, boardChanged, queued, deferred, effectPending,
                   initialBoardNow, call>>

\* The callback scheduled by setTimeout (lines 90-96): the oldest pending
\* one fires (all have the same delay) and queues the update that deletes
\* its key.
animationEnd ==
    /\ timers # <<>>
    /\ animatingPieces' = animatingPieces \ {Head(timers)}
    /\ timers' = Tail(timers)
    /\ updatePending' = TRUE
    /\ UNCHANGED <<gameState, rendered, boardChanged, queued, deferred, effectPending,
                   initialBoardNow, call>>

\* resetGame (lines 142-153): the board installed is the exported array
\* initialBoard as it is now, the array a state has while no move was made
\* since the start or the last reset. The empty set is queued for
\* animatingPieces by the call itself (line 152), in front of what an updater
\* body not run yet will queue. Pending timers are not cancelled.
resetGame ==
    /\ gameState' = [initialState EXCEPT !.board = initialBoardNow]
    /\ boardChanged' = (rendered.moveHistory # <<>>)
    /\ animatingPieces' = {}
    /\ updatePending' = TRUE
    /\ UNCHANGED <<rendered, queued, deferred, timers, effectPending, initialBoardNow,
                   call>>

\* No rules-engine function is being called directly.
NoCall == [op |-> "none"]

\* The component after its first render: the status effect runs after it.
InitGame ==
    /\ gameState = initialState
    /\ rendered = initialState
    /\ boardChanged = FALSE
    /\ queued = 0
    /\ updatePending = FALSE
    /\ deferred = <<>>
    /\ animatingPieces = {}
    /\ timers = <<>>
    /\ effectPending = TRUE
    /\ initialBoardNow = initialBoard

Init == InitGame /\ call = NoCall

\* The calls explored: one that is accepted as a move is made while fewer
\* than maxMoves moves are in the log and it leaves at most maxTimers
\* animation callbacks pending or to be scheduled; one that returns a new
\* state is made while fewer than MaxQueued such updates wait for a render.
Explored(x, y, maxMoves, maxTimers) ==
    MoveAccepted(rendered.gameStatus, gameState, x, y) =>
        /\ Len(gameState.moveHistory) < maxMoves
        /\ Len(timers) + Len(deferred) < maxTimers

\* The renders explored: those that leave at most maxTimers callbacks
\* pending.
Render == render /\ Len(timers') <= MaxTimers

RenderAnim == render /\ Len(timers') <= MaxAnimTimers

Click ==
    \E sq \in ClickSquares :
        /\ Explored(sq[1], sq[2], MaxMoves, MaxTimers)
        /\ handleSquareClick(sq[1], sq[2])
        /\ Len(timers') + Len(deferred') <= MaxTimers
        /\ queued' <= MaxQueued

Next ==
    \/ Click
    \/ Render
    \/ statusEffect
    \/ animationEnd
    \/ resetGame

Spec == Init /\ [][Next]_vars

\* The game with up to MaxAnimTimers callbacks pending at once, so that a
\* callback fires after further moves; a callback scheduled by setTimeout
\* does fire, 600 ms later.
ClickAnim ==
    \E sq \in ClickSquares :
        /\ Explored(sq[1], sq[2], MaxAnimMoves, MaxAnimTimers)
        /\ handleSquareClick(sq[1], sq[2])
        /\ Len(timers') + Len(deferred') <= MaxAnimTimers
        /\ queued' <= MaxQueued

NextAnim ==
    \/ ClickAnim
    \/ RenderAnim
    \/ statusEffect
    \/ animationEnd
    \/ resetGame

SpecAnim == Init /\ [][NextAnim]_vars /\ WF_vars(animationEnd)

\* The squares of 1.f3 e5 2.Kf2 Qh4 3.g3 Qxg3: f2, f3, g2, g3, e7, e5, d8,
\* h4 and e1.
PlaySquares ==
    {<<5, 6>>, <<5, 5>>, <<6, 6>>, <<6, 5>>,
     <<4, 1>>, <<4, 3>>, <<3, 0>>, <<7, 4>>, <<4, 7>>}

\* The game on these squares with more moves, so that the side checked by
\* the fourth move is to move and is answered.
ClickPlay ==
    \E sq \in PlaySquares :
        /\ Explored(sq[1], sq[2], MaxPlayMoves, MaxTimers)
        /\ handleSquareClick(sq[1], sq[2])
        /\ Len(timers') + Len(deferred') <= MaxTimers
        /\ queued' <= MaxQueued

NextPlay ==
    \/ ClickPlay
    \/ Render
    \/ statusEffect
    \/ animationEnd
    \/ resetGame

SpecPlay == Init /\ [][NextPlay]_vars

\* The game on the squares of 1.f3 e5 2.g4 Qh4 with one more move than the
\* mate takes, so that the mated side is to move.
ClickMate ==
    \E sq \in ClickSquares :
        /\ Explored(sq[1], sq[2], MaxMateMoves, MaxTimers)
        /\ handleSquareClick(sq[1], sq[2])
        /\ Len(timers') + Len(deferred') <= MaxTimers
        /\ queued' <= MaxQueued

NextMate ==
    \/ ClickMate
    \/ Render
    \/ statusEffect
    \/ animationEnd
    \/ resetGame

SpecMate == Init /\ [][NextMate]_vars

\* The squares of 1.f4 e5 2.fxe5 Qh4: f2, f4, e7, e5, d8 and h4.
CaptureSquares ==
    {<<5, 6>>, <<5, 4>>, <<4, 1>>, <<4, 3>>, <<3, 0>>, <<7, 4>>}

\* The game on these squares, where the third move is a capture.
ClickCapture ==
    \E sq \in CaptureSquares :
        /\ Explored(sq[1], sq[2], MaxMoves, MaxTimers)
        /\ handleSquareClick(sq[1], sq[2])
        /\ Len(timers') + Len(deferred') <= MaxTimers
        /\ queued' <= MaxQueued

NextCapture ==
    \/ ClickCapture
    \/ Render
    \/ statusEffect
    \/ animationEnd
    \/ resetGame

SpecCapture == Init /\ [][NextCapture]_vars

\* Coordinates outside the board, on each side of each axis, that a caller
\* other than the board component (chess-board.tsx line 42) may pass.
OutsideSquares == {<<8, 6>>, <<-1, 6>>, <<8, 0>>, <<5, 8>>, <<5, -1>>, <<8, 8>>}

\* Bound on the updater bodies waiting for a render when a call outside the
\* board is explored: a move's body can wait in front of one that throws.
MaxDeferred == 2

ClickOutside ==
    \E sq \in OutsideSquares :
        /\ handleSquareClick(sq[1], sq[2])
        /\ queued' <= MaxQueued
        /\ Len(deferred') <= MaxDeferred

\* The game with calls of handleSquareClick outside the board as well.
\* While an updater that will throw waits in the queue the component goes
\* on as before: the status effect, the timeout callbacks, resetGame and
\* further calls run, and their updates queue behind it. The render that
\* processes the queue raises the error; nothing is rendered after it, so
\* no further step is taken.
NextOutside ==
    \/ call = NoCall /\ Next
    \/ call = NoCall /\ ClickOutside

SpecOutside == Init /\ [][NextOutside]_vars

----------------------------------------------------------------------------
(***************************************************************************)
(* Direct calls of the rules engine on given boards.  The boards are the   *)
(* initial one and positions with a pinned or checked piece; the call is   *)
(* getValidMoves(board, position) for every square of the board.           *)
(***************************************************************************)
\* The board holding exactly the given pieces, each on its position.
Place(pieces) ==
    [y \in Idx |->
        [x \in Idx |->
            IF \E p \in pieces : p.position = <<x, y>>
            THEN CHOOSE p \in pieces : p.position = <<x, y>>
            ELSE Null]]

\* Knight e2 pinned on the e-file by the rook e8: every knight move exposes e1.
PinnedKnightBoard ==
    Place({Mk("king", "white", 4, 7, "wk"), Mk("knight", "white", 4, 6, "wn1"),
           Mk("rook", "black", 4, 0, "br1"), Mk("king", "black", 0, 0, "bk")})

\* Rook e3 pinned on the e-file by the rook e8: it may still move on the file.
PinnedRookBoard ==
    Place({Mk("king", "white", 4, 7, "wk"), Mk("rook", "white", 4, 5, "wr1"),
           Mk("rook", "black", 4, 0, "br1"), Mk("king", "black", 0, 0, "bk")})

\* Pawn d2 pinned on the diagonal a5-e1 by the bishop a5.
PinnedPawnBoard ==
    Place({Mk("king", "white", 4, 7, "wk"), Mk("pawn", "white", 3, 6, "wp4"),
           Mk("bishop", "black", 0, 3, "bb1"), Mk("king", "black", 7, 0, "bk"),
           Mk("pawn", "black", 7, 1, "bp8")})

\* Black bishop d7 pinned on the diagonal by the queen a4; black to defend.
PinnedBishopBoard ==
    Place({Mk("king", "black", 4, 0, "bk"), Mk("bishop", "black", 3, 1, "bb1"),
           Mk("queen", "white", 0, 4, "wq"), Mk("king", "white", 4, 7, "wk"),
           Mk("knight", "black", 1, 0, "bn1")})

\* 1. f3 e5 2. f4 Qh4+: white is in check and must block on g3.
CheckBoard ==
    [initialBoard EXCEPT
        ![6][5] = Null,
        ![4][5] = [Mk("pawn", "white", 5, 4, "wp6") EXCEPT !.hasMoved = TRUE],
        ![1][4] = Null,
        ![3][4] = [Mk("pawn", "black", 4, 3, "bp5") EXCEPT !.hasMoved = TRUE],
        ![0][3] = Null,
        ![4][7] = [Mk("queen", "black", 7, 4, "bq") EXCEPT !.hasMoved = TRUE]]

\* A board without a white king: isInCheck finds no king and answers false.
NoKingBoard ==
    Place({Mk("rook", "white", 4, 6, "wr1"), Mk("rook", "black", 4, 0, "br1"),
           Mk("king", "black", 0, 0, "bk")})

\* Sliding pieces with blockers: rook a1 behind its own pawn a3 (a5 empty,
\* a6 black) and behind the black knight d1 (e1 empty, f1 black); queen e4
\* behind the black pawn f5 (g6 empty, h7 black) and its own pawn e6 (e7
\* empty, e8 black); bishop c3 with free diagonals.
BlockBoard ==
    Place({Mk("rook", "white", 0, 7, "wr1"), Mk("pawn", "white", 0, 5, "wp1"),
           Mk("pawn", "black", 0, 2, "bp1"), Mk("knight", "black", 3, 7, "bn1"),
           Mk("rook", "black", 5, 7, "br2"), Mk("queen", "white", 4, 4, "wq"),
           Mk("pawn", "black", 5, 3, "bp6"), Mk("bishop", "black", 7, 1, "bb2"),
           Mk("pawn", "white", 4, 2, "wp5"), Mk("rook", "black", 4, 0, "br1"),
           Mk("bishop", "white", 2, 5, "wb1"), Mk("king", "white", 7, 7, "wk"),
           Mk("king", "black", 6, 0, "bk")})

\* Pawns on and off their starting ranks: e2 and c2 with the square in front
\* occupied and the one behind it empty, a2 with a4 occupied, d7 with d6
\* occupied, g7 free, g4, f3 and b5 off their starting ranks.
PawnBoard ==
    Place({Mk("pawn", "white", 4, 6, "wp5"), Mk("knight", "black", 4, 5, "bn1"),
           Mk("pawn", "white", 2, 6, "wp3"), Mk("bishop", "white", 2, 5, "wb1"),
           Mk("pawn", "white", 0, 6, "wp1"), Mk("pawn", "black", 0, 4, "bp1"),
           Mk("pawn", "black", 3, 1, "bp4"), Mk("bishop", "white", 3, 2, "wb2"),
           Mk("pawn", "black", 6, 1, "bp7"), Mk("pawn", "white", 6, 4, "wp7"),
           Mk("pawn", "white", 5, 5, "wp6"), Mk("pawn", "black", 1, 3, "bp2"),
           Mk("king", "white", 4, 7, "wk"), Mk("king", "black", 4, 0, "bk")})

\* Black king a8 not attacked and without a legal move (queen c7).
StalemateBoard ==
    Place({Mk("king", "black", 0, 0, "bk"), Mk("queen", "white", 2, 1, "wq"),
           Mk("king", "white", 4, 7, "wk")})

\* Black king a8 mated by the queen b7, which the king c6 protects.
MateBoard ==
    Place({Mk("king", "black", 0, 0, "bk"), Mk("queen", "white", 1, 1, "wq"),
           Mk("king", "white", 2, 2, "wk")})

TestBoards ==
    {initialBoard, PinnedKnightBoard, PinnedRookBoard, PinnedPawnBoard,
     PinnedBishopBoard, CheckBoard, NoKingBoard, BlockBoard, PawnBoard,
     StalemateBoard, MateBoard}

PieceTypes == {"pawn", "rook", "knight", "bishop", "queen", "king"}

\* Origins given to formatMove.
FormatFroms == {<<0, 7>>, <<4, 6>>, <<3, 0>>}

\* The calls made: getValidMoves for every square of every board,
\* isValidMove from every piece of every board to every square, newStatus
\* for both colors on every board, formatMove for every piece type and
\* destination, with and without a captured piece.
InitFn ==
    /\ InitGame
    /\ \/ \E b \in TestBoards : \E sq \in Squares :
             call = [op |-> "getValidMoves", board |-> b, position |-> sq,
                     done |-> FALSE, result |-> <<>>]
       \/ \E b \in TestBoards : \E from \in Squares : \E to \in Squares :
             /\ b[from[2]][from[1]] # Null
             /\ call = [op |-> "isValidMove", board |-> b, from |-> from, to |-> to,
                        piece |-> b[from[2]][from[1]],
                        done |-> FALSE, result |-> FALSE]
       \/ \E b \in TestBoards : \E c \in {"white", "black"} :
             call = [op |-> "newStatus", board |-> b, currentPlayer |-> c,
                     done |-> FALSE, result |-> ""]
       \/ \E from \in FormatFroms : \E to \in Squares : \E t \in PieceTypes :
          \E captured \in {Null, Mk("pawn", "black", to[1], to[2], "bp1")} :
             call = [op |-> "formatMove", from |-> from, to |-> to,
                     piece |-> Mk(t, "white", from[1], from[2], "w"),
                     captured |-> captured, done |-> FALSE, result |-> ""]

\* getValidMoves(call.board, call.position) returns.
CallGetValidMoves ==
    /\ call.op = "getValidMoves"
    /\ ~call.done
    /\ call' = [call EXCEPT !.done = TRUE,
                            !.result = getValidMoves(call.board, call.position)]
    /\ UNCHANGED game

\* isValidMove(call.board, call.from, call.to, call.piece) returns.
CallIsValidMove ==
    /\ call.op = "isValidMove"
    /\ ~call.done
    /\ call' = [call EXCEPT
                   !.done = TRUE,
                   !.result = isValidMove(call.board, call.from, call.to, call.piece)]
    /\ UNCHANGED game

\* The status computation of the effect returns for (board, currentPlayer).
CallNewStatus ==
    /\ call.op = "newStatus"
    /\ ~call.done
    /\ call' = [call EXCEPT !.done = TRUE,
                            !.result = newStatus(call.board, call.currentPlayer)]
    /\ UNCHANGED game

\* formatMove(call.from, call.to, call.piece, call.captured) returns.
CallFormatMove ==
    /\ call.op = "formatMove"
    /\ ~call.done
    /\ call' = [call EXCEPT
                   !.done = TRUE,
                   !.result = formatMove(call.from, call.to, call.piece, call.captured)]
    /\ UNCHANGED game

NextFn ==
    \/ CallGetValidMoves
    \/ CallIsValidMove
    \/ CallNewStatus
    \/ CallFormatMove

SpecFn == InitFn /\ [][NextFn]_vars

\* The game, or a direct call on a given board.
NextAll ==
    \/ call = NoCall /\ Next
    \/ NextFn

SpecAll == (Init \/ InitFn) /\ [][NextAll]_vars

----------------------------------------------------------------------------
(***************************************************************************)
(* Properties.                                                             *)
(***************************************************************************)
PieceAt(board, sq) == board[sq[2]][sq[1]]

IsPrefix(s, t) == Len(s) <= Len(t) /\ SubSeq(t, 1, Len(s)) = s

InSeq(e, seq) == \E i \in 1..Len(seq) : seq[i] = e

\* C1: turn alternation. The player to move is white after an even number
\* of accepted moves and black after an odd number (the accepted moves are
\* the entries of the move log), and activating any of the 64 squares
\* changes the player to move exactly when the activation is an accepted
\* move.
C1_Parity ==
    gameState.currentPlayer =
        IF Len(gameState.moveHistory) % 2 = 0 THEN "white" ELSE "black"

C1_Activation ==
    \A sq \in Squares :
        activate(rendered.gameStatus, gameState, sq[1], sq[2]).currentPlayer =
            IF MoveAccepted(rendered.gameStatus, gameState, sq[1], sq[2])
            THEN Opponent(gameState.currentPlayer)
            ELSE gameState.currentPlayer

C1_TurnAlternation == C1_Parity /\ C1_Activation

\* Three moves have been accepted and black is to move.
C1_Witness ==
    Len(gameState.moveHistory) = 3 /\ gameState.currentPlayer = "black"

\* The status function of a position as the specification words it:
\* checkmate when the player is in check and none of its pieces has a legal
\* move, check when it is in check and some piece has one, playing otherwise.
StatusOf(board, color) ==
    IF ~isInCheck(board, color) THEN "playing"
    ELSE IF \E sq \in Squares :
                /\ PieceAt(board, sq) # Null
                /\ PieceAt(board, sq).color = color
                /\ getValidMoves(board, sq) # <<>>
         THEN "check"
         ELSE "checkmate"

\* C2 as stated: in every reachable state the stored status is the status
\* function of (board, currentPlayer), also right after an accepted move.
C2_StatusAlwaysCurrent ==
    gameState.gameStatus = StatusOf(gameState.board, gameState.currentPlayer)

\* A run of the status effect is outstanding: one is scheduled, or the next
\* render schedules one because board or currentPlayer is not the one of
\* the last render.
StatusPassDue ==
    \/ effectPending
    \/ boardChanged
    \/ gameState.currentPlayer # rendered.currentPlayer

\* C2 as amended: in every reachable state in which no run of the status
\* effect is outstanding, the stored status is the status function of
\* (board, currentPlayer).
C2_StatusCurrentAfterEffect ==
    ~StatusPassDue =>
        gameState.gameStatus = StatusOf(gameState.board, gameState.currentPlayer)

\* The effect has stored "check" for a position reached by play.
C2_Witness ==
    /\ ~StatusPassDue
    /\ gameState.gameStatus = "check"
    /\ Len(gameState.moveHistory) > 0

\* C3: checkmate is terminal. In a state whose status is checkmate every
\* activation of any of the 64 squares returns the same GameState, and only
\* a reset step changes the GameState.
C3_ActivationsNoOp ==
    gameState.gameStatus = "checkmate" =>
        \A sq \in Squares :
            activate(rendered.gameStatus, gameState, sq[1], sq[2]) = gameState

C3_OnlyResetLeaves ==
    (gameState.gameStatus = "checkmate" /\ ~resetGame) => UNCHANGED gameState

C3_CheckmateTerminal == []C3_ActivationsNoOp /\ [][C3_OnlyResetLeaves]_vars

\* The activations of the fool's mate: f2-f3, e7-e5, g2-g4, Qd8-h4.
FoolsClicks ==
    << <<5, 6>>, <<5, 5>>, <<4, 1>>, <<4, 3>>,
       <<6, 6>>, <<6, 4>>, <<3, 0>>, <<7, 4>> >>

FoolsLog == <<"f3", "e5", "g4", "Qh4">>

\* The GameState after the given activations, each made by the handler of
\* a render of the state it acts on, none followed by the effect.
RECURSIVE Play(_, _)
Play(state, clicks) ==
    IF clicks = <<>> THEN state
    ELSE Play(activate(state.gameStatus, state, Head(clicks)[1], Head(clicks)[2]), Tail(clicks))

FoolsFinal == Play(initialState, FoolsClicks)

\* C4: the fool's mate. Each of the four moves is accepted from the initial
\* state; the position they produce is a checkmate of white; every state
\* whose log is these four moves holds that position, carries the status
\* checkmate once the status pass has run, and from then on every
\* activation returns the same GameState.
C4_FoolsMate ==
    /\ \A k \in 1..4 :
          LET before == Play(initialState, SubSeq(FoolsClicks, 1, 2 * k - 1))
          IN  /\ before.selectedPiece = FoolsClicks[2 * k - 1]
              /\ MoveAccepted(before.gameStatus, before,
                              FoolsClicks[2 * k][1], FoolsClicks[2 * k][2])
    /\ FoolsFinal.moveHistory = FoolsLog
    /\ gameState.moveHistory = FoolsLog =>
          /\ gameState.board = FoolsFinal.board
          /\ gameState.currentPlayer = "white"
          /\ isInCheck(gameState.board, "white")
          /\ ~StatusPassDue => gameState.gameStatus = "checkmate"
          /\ gameState.gameStatus = "checkmate" =>
                \A sq \in Squares :
                    activate(rendered.gameStatus, gameState, sq[1], sq[2]) = gameState

\* C5: the stored legal moves are those getValidMoves computes for the
\* selected square on the current board, and empty without a selection.
C5_LegalMovesCurrent ==
    IF gameState.selectedPiece = NoSquare
    THEN gameState.validMoves = <<>>
    ELSE gameState.validMoves = getValidMoves(gameState.board, gameState.selectedPiece)

\* A piece with legal moves is selected after a move was played.
C5_Witness ==
    /\ gameState.selectedPiece # NoSquare
    /\ gameState.validMoves # <<>>
    /\ Len(gameState.moveHistory) > 0

\* The position after a move as the specification words it: the piece placed
\* on the destination, the origin cleared, every other square as before.
AfterMove(board, from, to) ==
    [y \in Idx |->
        [x \in Idx |->
            IF <<x, y>> = to THEN PieceAt(board, from)
            ELSE IF <<x, y>> = from THEN Null
            ELSE board[y][x]]]

\* Some piece of the other color has a shape-legal move onto a king of color.
KingAttacked(board, color) ==
    \E k \in Squares :
        /\ PieceAt(board, k) # Null
        /\ PieceAt(board, k).type = "king"
        /\ PieceAt(board, k).color = color
        /\ \E a \in Squares :
              /\ PieceAt(board, a) # Null
              /\ PieceAt(board, a).color = Opponent(color)
              /\ isValidMove(board, a, k, PieceAt(board, a))

\* C6: self-check filtering. For every occupied square of every board given
\* to getValidMoves, a destination is in the result exactly when it is
\* shape-legal and the move, once applied, leaves the mover's king not
\* attacked; so a piece all of whose shape-legal moves expose its king gets
\* the empty list.
C6_SelfCheckFiltering ==
    (/\ call.op = "getValidMoves"
     /\ call.done
     /\ PieceAt(call.board, call.position) # Null) =>
        LET piece == PieceAt(call.board, call.position)
        IN  \A to \in Squares :
                InSeq(to, call.result) <=>
                    /\ isValidMove(call.board, call.position, to, piece)
                    /\ ~KingAttacked(AfterMove(call.board, call.position, to),
                                     piece.color)

\* getValidMoves returned the empty list for a pinned piece: it is not a
\* king, its side is not in check, and it has shape-legal moves.
C6_Witness ==
    /\ call.op = "getValidMoves"
    /\ call.done
    /\ PieceAt(call.board, call.position) # Null
    /\ PieceAt(call.board, call.position).type # "king"
    /\ ~KingAttacked(call.board, PieceAt(call.board, call.position).color)
    /\ \E to \in Squares :
          isValidMove(call.board, call.position, to,
                      PieceAt(call.board, call.position))
    /\ call.result = <<>>

\* C7: the move log. Activating any of the 64 squares appends exactly one
\* entry when the activation is an accepted move and leaves the log as it is
\* otherwise; and every step other than a reset keeps the log it starts from
\* as a prefix of the log it ends with, longer by at most one entry.
C7_Activation ==
    \A sq \in Squares :
        LET after == activate(rendered.gameStatus, gameState, sq[1], sq[2]).moveHistory
        IN  IF MoveAccepted(rendered.gameStatus, gameState, sq[1], sq[2])
            THEN /\ Len(after) = Len(gameState.moveHistory) + 1
                 /\ IsPrefix(gameState.moveHistory, after)
            ELSE after = gameState.moveHistory

C7_Step ==
    ~resetGame =>
        /\ IsPrefix(gameState.moveHistory, gameState'.moveHistory)
        /\ Len(gameState'.moveHistory) <= Len(gameState.moveHistory) + 1

C7_MoveLogGrows == []C7_Activation /\ [][C7_Step]_vars

\* Two moves are logged and a later activation has selected a piece.
C7_Witness ==
    /\ Len(gameState.moveHistory) >= 2
    /\ gameState.selectedPiece # NoSquare

\* C8: applying a move. Activating a square of the stored legal moves while
\* a piece is selected empties the origin, puts the moved piece (same id,
\* type and color, position the destination, hasMoved true) on the
\* destination, leaves every other square as it was, appends the piece that
\* stood on the destination, if any, to capturedPieces, and clears the
\* selection and the legal moves.
C8_ApplyMove ==
    gameState.selectedPiece # NoSquare =>
        \A i \in 1..Len(gameState.validMoves) :
            LET from == gameState.selectedPiece
                to == gameState.validMoves[i]
                moving == PieceAt(gameState.board, from)
                target == PieceAt(gameState.board, to)
                after == activate(rendered.gameStatus, gameState, to[1], to[2])
            IN  /\ PieceAt(after.board, from) = Null
                /\ PieceAt(after.board, to) =
                      [id |-> moving.id, type |-> moving.type, color |-> moving.color,
                       position |-> to, hasMoved |-> TRUE]
                /\ \A sq \in Squares \ {from, to} :
                      PieceAt(after.board, sq) = PieceAt(gameState.board, sq)
                /\ after.capturedPieces =
                      IF target # Null
                      THEN Append(gameState.capturedPieces, target)
                      ELSE gameState.capturedPieces
                /\ after.selectedPiece = NoSquare
                /\ after.validMoves = <<>>

\* C9: non-moves. With no square selected, activating a square that is empty
\* or holds a piece of the opponent returns the same GameState.
C9_NonMoveIdempotent ==
    gameState.selectedPiece = NoSquare =>
        \A sq \in Squares :
            (\/ PieceAt(gameState.board, sq) = Null
             \/ PieceAt(gameState.board, sq).color # gameState.currentPlayer) =>
                activate(rendered.gameStatus, gameState, sq[1], sq[2]) = gameState

\* Nothing is selected in a position reached by play that is not a
\* checkmate, with empty and opponent squares among those activated.
C9_Witness ==
    /\ gameState.selectedPiece = NoSquare
    /\ gameState.gameStatus # "checkmate"
    /\ Len(gameState.moveHistory) >= 1
    /\ \E sq \in ClickSquares : PieceAt(gameState.board, sq) = Null
    /\ \E sq \in ClickSquares :
          /\ PieceAt(gameState.board, sq) # Null
          /\ PieceAt(gameState.board, sq).color # gameState.currentPlayer

\* C10: board consistency. Every piece on the board stores the (file, rank)
\* of the cell that holds it, and no id is in two cells.
C10_BoardConsistent ==
    /\ \A sq \in Squares :
          PieceAt(gameState.board, sq) # Null =>
              PieceAt(gameState.board, sq).position = sq
    /\ \A s1 \in Squares : \A s2 \in Squares :
          (/\ PieceAt(gameState.board, s1) # Null
           /\ PieceAt(gameState.board, s2) # Null
           /\ PieceAt(gameState.board, s1).id = PieceAt(gameState.board, s2).id) =>
              s1 = s2

\* Pieces of both colors have moved and one has been captured.
C10_Witness ==
    /\ \E sq \in Squares :
          /\ PieceAt(gameState.board, sq) # Null
          /\ PieceAt(gameState.board, sq).hasMoved
          /\ PieceAt(gameState.board, sq).color = "white"
    /\ \E sq \in Squares :
          /\ PieceAt(gameState.board, sq) # Null
          /\ PieceAt(gameState.board, sq).hasMoved
          /\ PieceAt(gameState.board, sq).color = "black"
    /\ Len(gameState.capturedPieces) = 1

\* The textbook opening moves of the piece on a square of the initial
\* board: a pawn one or two squares forward, a knight to the third rank of
\* its side on either neighbouring file, nothing for any other square.
OpeningMoves(sq) ==
    CASE sq[2] = 6 -> {<<sq[1], 5>>, <<sq[1], 4>>}
      [] sq[2] = 1 -> {<<sq[1], 2>>, <<sq[1], 3>>}
      [] sq \in {<<1, 7>>, <<6, 7>>} -> {<<sq[1] - 1, 5>>, <<sq[1] + 1, 5>>}
      [] sq \in {<<1, 0>>, <<6, 0>>} -> {<<sq[1] - 1, 2>>, <<sq[1] + 1, 2>>}
      [] OTHER -> {}

\* C11: on the initial board getValidMoves returns exactly two destinations
\* for each of the 16 pawns (one and two squares forward) and for each of
\* the 4 knights, and the empty list for every other piece, for both colors.
C11_OpeningMoves ==
    /\ \A sq \in Squares :
          /\ PieceAt(initialBoard, sq) # Null <=> sq[2] \in {0, 1, 6, 7}
          /\ sq[2] \in {1, 6} => PieceAt(initialBoard, sq).type = "pawn"
          /\ sq[2] \in {0, 7} =>
                (PieceAt(initialBoard, sq).type = "knight" <=> sq[1] \in {1, 6})
    /\ (/\ call.op = "getValidMoves"
        /\ call.done
        /\ call.board = initialBoard) =>
          /\ {call.result[i] : i \in 1..Len(call.result)} = OpeningMoves(call.position)
          /\ Len(call.result) = Cardinality(OpeningMoves(call.position))

\* getValidMoves returned the two moves of the black knight g8.
C11_Witness ==
    /\ call.op = "getValidMoves"
    /\ call.done
    /\ call.board = initialBoard
    /\ call.position = <<6, 0>>
    /\ Len(call.result) = 2

\* The standard placement: black on ranks 0 and 1, white on ranks 6 and 7,
\* pawns on ranks 1 and 6, rook, knight, bishop, queen, king, bishop, knight,
\* rook on files 0 to 7 of ranks 0 and 7, 32 pieces, none marked as moved.
StandardPlacement(board) ==
    /\ Cardinality({sq \in Squares : PieceAt(board, sq) # Null}) = 32
    /\ \A sq \in Squares :
          LET piece == PieceAt(board, sq)
          IN  IF sq[2] \in 2..5 THEN piece = Null
              ELSE /\ piece # Null
                   /\ piece.position = sq
                   /\ ~piece.hasMoved
                   /\ piece.color = IF sq[2] <= 1 THEN "black" ELSE "white"
                   /\ piece.type =
                         IF sq[2] \in {1, 6} THEN "pawn"
                         ELSE CASE sq[1] \in {0, 7} -> "rook"
                                [] sq[1] \in {1, 6} -> "knight"
                                [] sq[1] \in {2, 5} -> "bishop"
                                [] sq[1] = 3 -> "queen"
                                [] sq[1] = 4 -> "king"

\* C12: reset. From any state a reset step yields the initial GameState (the
\* standard placement with no piece marked as moved, white to move, no
\* selection, no legal moves, status playing, nothing captured, empty log)
\* and the empty animation set; the exported initial board, which the reset
\* installs, never holds a trace of the moves played.
C12_ResetStep ==
    resetGame =>
        /\ StandardPlacement(gameState'.board)
        /\ gameState'.board = initialBoard
        /\ gameState'.currentPlayer = "white"
        /\ gameState'.selectedPiece = NoSquare
        /\ gameState'.validMoves = <<>>
        /\ gameState'.gameStatus = "playing"
        /\ gameState'.capturedPieces = <<>>
        /\ gameState'.moveHistory = <<>>
        /\ animatingPieces' = {}

C12_Reset == [](initialBoardNow = initialBoard) /\ [][C12_ResetStep]_vars

\* The game was reset after a move: it is in its initial state while the
\* animation callback of that move is still pending.
C12_Witness ==
    /\ gameState = initialState
    /\ animatingPieces = {}
    /\ timers # <<>>

\* C13: out-of-range input. In every reachable state, with or without a
\* selection, activating a square whose x or y lies outside 0..7 raises an
\* error and leaves the GameState unchanged: it never clears the selection
\* and never reads outside the board.
C13_OutOfRangeRejected ==
    [][\A sq \in OutsideSquares :
          handleSquareClick(sq[1], sq[2]) =>
              /\ gameState' = gameState
              /\ call' # NoCall
              /\ ~indexThrows(sq[1], sq[2])]_vars

\* The notation of a move by its destination, piece type and capture flag.
Notation(to, type, capture) ==
    LET prefix == CASE type = "pawn" -> ""
                    [] type = "rook" -> "R"
                    [] type = "knight" -> "K"
                    [] type = "bishop" -> "B"
                    [] type = "queen" -> "Q"
                    [] type = "king" -> "K"
        marker == IF capture THEN "x" ELSE ""
        file == CASE to[1] = 0 -> "a" [] to[1] = 1 -> "b" [] to[1] = 2 -> "c"
                  [] to[1] = 3 -> "d" [] to[1] = 4 -> "e" [] to[1] = 5 -> "f"
                  [] to[1] = 6 -> "g" [] to[1] = 7 -> "h"
        rank == CASE to[2] = 0 -> "8" [] to[2] = 1 -> "7" [] to[2] = 2 -> "6"
                  [] to[2] = 3 -> "5" [] to[2] = 4 -> "4" [] to[2] = 5 -> "3"
                  [] to[2] = 6 -> "2" [] to[2] = 7 -> "1"
    IN  prefix \o marker \o file \o rank

\* C14: notation. formatMove returns the piece prefix (empty for a pawn,
\* otherwise the upper-cased first letter of the type, K for knight and king
\* alike), then x exactly when a captured piece is given, then the
\* destination's file letter a..h and 8 minus its rank index; the origin
\* does not affect it. A rook from (0,7) to (0,3) gives Ra5, Rxa5 with a
\* capture, and a pawn to (4,4) gives e4.
C14_Notation ==
    (call.op = "formatMove" /\ call.done) =>
        /\ call.result = Notation(call.to, call.piece.type, call.captured # Null)
        /\ (/\ call.from = <<0, 7>>
            /\ call.to = <<0, 3>>
            /\ call.piece.type = "rook") =>
              call.result = IF call.captured = Null THEN "Ra5" ELSE "Rxa5"
        /\ (/\ call.to = <<4, 4>>
            /\ call.piece.type = "pawn"
            /\ call.captured = Null) => call.result = "e4"
        /\ call.piece.type \in {"knight", "king"} =>
              \E sq \in {"a", "b", "c", "d", "e", "f", "g", "h"} \X
                        {"1", "2", "3", "4", "5", "6", "7", "8"} :
                 call.result \in {"K" \o sq[1] \o sq[2], "Kx" \o sq[1] \o sq[2]}

\* formatMove returned Rxa5 for the rook capturing from (0,7) on (0,3).
C14_Witness ==
    /\ call.op = "formatMove"
    /\ call.done
    /\ call.from = <<0, 7>>
    /\ call.to = <<0, 3>>
    /\ call.piece.type = "rook"
    /\ call.captured # Null
    /\ call.result = "Rxa5"

\* The squares strictly between two squares of one rank, file or diagonal.
Between(from, to) ==
    LET n == IF Abs(to[1] - from[1]) > Abs(to[2] - from[2])
             THEN Abs(to[1] - from[1]) ELSE Abs(to[2] - from[2])
    IN  {<<from[1] + k * Sign(to[1] - from[1]), from[2] + k * Sign(to[2] - from[2])>> :
            k \in 1..(n - 1)}

\* to lies on a line of travel of a rook, bishop or queen standing on from.
SameLine(type, from, to) ==
    LET straight == from[1] = to[1] \/ from[2] = to[2]
        diagonal == Abs(to[1] - from[1]) = Abs(to[2] - from[2])
    IN  /\ from # to
        /\ CASE type = "rook" -> straight
             [] type = "bishop" -> diagonal
             [] type = "queen" -> straight \/ diagonal

\* C15: path blocking. For a rook, bishop or queen isValidMove rejects every
\* destination with an occupied square strictly between origin and
\* destination on the line of travel, whatever stands on the destination,
\* and accepts a destination on a line of travel that holds no own piece
\* when every square between is empty.
C15_PathBlocking ==
    (/\ call.op = "isValidMove"
     /\ call.done
     /\ call.piece.type \in {"rook", "bishop", "queen"}
     /\ SameLine(call.piece.type, call.from, call.to)) =>
        LET blocked == \E sq \in Between(call.from, call.to) :
                          PieceAt(call.board, sq) # Null
            target == PieceAt(call.board, call.to)
            own == target # Null /\ target.color = call.piece.color
        IN  /\ blocked => ~call.result
            /\ (~blocked /\ ~own) => call.result

\* isValidMove rejected the rook a1 going to a4 behind its own pawn a3, the
\* square a2 next to the rook being empty.
C15_Witness ==
    /\ call.op = "isValidMove"
    /\ call.done
    /\ call.board = BlockBoard
    /\ call.piece.type = "rook"
    /\ call.from = <<0, 7>>
    /\ call.to = <<0, 4>>
    /\ PieceAt(call.board, <<0, 6>>) = Null
    /\ PieceAt(call.board, <<0, 5>>) # Null
    /\ PieceAt(call.board, call.to) = Null
    /\ ~call.result

\* The player of color is not attacked and none of its pieces has a move that
\* is shape-legal and leaves its king not attacked.
Stalemated(board, color) ==
    /\ ~KingAttacked(board, color)
    /\ \A from \in Squares :
          (PieceAt(board, from) # Null /\ PieceAt(board, from).color = color) =>
              \A to \in Squares :
                  ~(/\ isValidMove(board, from, to, PieceAt(board, from))
                    /\ ~KingAttacked(AfterMove(board, from, to), color))

\* C16: stalemate is never produced. The stored status and every status the
\* effect computes is one of playing, check and checkmate, and for a position
\* whose player to move is not in check and has no legal move it is playing.
C16_NoStalemate ==
    /\ gameState.gameStatus \in {"playing", "check", "checkmate"}
    /\ (~StatusPassDue /\ Stalemated(gameState.board, gameState.currentPlayer)) =>
          gameState.gameStatus = "playing"
    /\ (call.op = "newStatus" /\ call.done) =>
          /\ call.result \in {"playing", "check", "checkmate"}
          /\ Stalemated(call.board, call.currentPlayer) => call.result = "playing"

\* The status computed for black to move, its king a8 not attacked and shut
\* in by the queen c7, is playing.
C16_Witness ==
    /\ call.op = "newStatus"
    /\ call.done
    /\ call.board = StalemateBoard
    /\ call.currentPlayer = "black"
    /\ Stalemated(call.board, call.currentPlayer)
    /\ call.result = "playing"

\* C17 as stated: the list returned by getValidMoves is ordered rank-major,
\* file-minor: of two destinations the one with the smaller rank index comes
\* first, and of two of equal rank the one with the smaller file index.
C17_RankMajor ==
    (call.op = "getValidMoves" /\ call.done) =>
        \A i \in 1..Len(call.result) : \A j \in 1..Len(call.result) :
            i < j => \/ call.result[i][2] < call.result[j][2]
                     \/ /\ call.result[i][2] = call.result[j][2]
                        /\ call.result[i][1] < call.result[j][1]

\* C17 as amended: the list returned by getValidMoves is ordered file-major,
\* rank-minor: of two destinations the one with the smaller file index comes
\* first, and of two of equal file the one with the smaller rank index (the
\* order of a column-by-column board scan); no destination occurs twice.
C17_FileMajor ==
    (call.op = "getValidMoves" /\ call.done) =>
        \A i \in 1..Len(call.result) : \A j \in 1..Len(call.result) :
            i < j => \/ call.result[i][1] < call.result[j][1]
                     \/ /\ call.result[i][1] = call.result[j][1]
                        /\ call.result[i][2] < call.result[j][2]

\* getValidMoves returned a list on which the two orders disagree: an earlier
\* destination on a smaller file and a larger rank than a later one.
C17_Witness ==
    /\ call.op = "getValidMoves"
    /\ call.done
    /\ \E i \in 1..Len(call.result) : \E j \in 1..Len(call.result) :
          /\ i < j
          /\ call.result[i][1] < call.result[j][1]
          /\ call.result[i][2] > call.result[j][2]

\* C18: status follow-up pass. An accepted move keeps the stored status and
\* leaves its recomputation from the new board and new currentPlayer to a
\* separate step; whenever the stored status differs from the status
\* function of (board, currentPlayer) that step is outstanding; once it has
\* run the two are equal; it changes no field other than the status, and
\* nothing when the status is already right.
C18_RecomputeEnabled ==
    gameState.gameStatus # StatusOf(gameState.board, gameState.currentPlayer)
        => StatusPassDue

C18_MoveStep ==
    Len(gameState'.moveHistory) = Len(gameState.moveHistory) + 1 =>
        /\ gameState'.gameStatus = gameState.gameStatus
        /\ StatusPassDue'

C18_RecomputeStep ==
    statusEffect =>
        /\ gameState'.gameStatus = StatusOf(gameState'.board, gameState'.currentPlayer)
        /\ gameState' = [gameState EXCEPT !.gameStatus = gameState'.gameStatus]
        /\ gameState.gameStatus = StatusOf(gameState.board, gameState.currentPlayer)
              => gameState' = gameState

C18_FollowUpPass ==
    /\ []C18_RecomputeEnabled
    /\ [][C18_MoveStep]_vars
    /\ [][C18_RecomputeStep]_vars

\* The square holds a piece of the player to move.
HoldsOwn(state, sq) ==
    /\ PieceAt(state.board, sq) # Null
    /\ PieceAt(state.board, sq).color = state.currentPlayer

\* The three selection transitions of a state with a selection.
Reactivated(state, sq) == sq = state.selectedPiece

Reselects(state, sq) ==
    /\ sq # state.selectedPiece
    /\ ~InSeq(sq, state.validMoves)
    /\ HoldsOwn(state, sq)

Deselects(state, sq) ==
    /\ sq # state.selectedPiece
    /\ ~InSeq(sq, state.validMoves)
    /\ ~HoldsOwn(state, sq)

\* C19: selection transitions. While a square is selected and the status is
\* not checkmate, for every square of the board: activating the selected
\* square again clears selection and legal moves; activating a square not
\* in the legal-move list that holds another piece of currentPlayer selects
\* it with its own legal moves; activating any other square not in the list
\* clears selection and legal moves. In the three cases board,
\* currentPlayer, capturedPieces and moveHistory stay as they are, and every
\* square falls in exactly one case or is an accepted move.
C19_SelectionTransitions ==
    (gameState.selectedPiece # NoSquare /\ gameState.gameStatus # "checkmate") =>
        \A sq \in Squares :
            LET next == activate(rendered.gameStatus, gameState, sq[1], sq[2])
                cleared == [gameState EXCEPT !.selectedPiece = NoSquare,
                                             !.validMoves = <<>>]
                reselected == [gameState EXCEPT
                                  !.selectedPiece = sq,
                                  !.validMoves = getValidMoves(gameState.board, sq)]
                accepted == Len(next.moveHistory) = Len(gameState.moveHistory) + 1
            IN  /\ Reactivated(gameState, sq) => next = cleared
                /\ Reselects(gameState, sq) => next = reselected
                /\ Deselects(gameState, sq) => next = cleared
                /\ Cardinality({c \in {"reactivated", "reselects", "deselects", "accepted"} :
                        CASE c = "reactivated" -> Reactivated(gameState, sq)
                          [] c = "reselects" -> Reselects(gameState, sq)
                          [] c = "deselects" -> Deselects(gameState, sq)
                          [] c = "accepted" -> accepted}) = 1

\* C20: pawn double step. A pawn on its starting rank (6 for white, 1 for
\* black) is shape-legal to advance two squares straight ahead exactly when
\* the destination is empty, also when the square between is occupied; from
\* any other rank the two-square advance is never shape-legal.
C20_PawnDoubleStep ==
    LET forward == IF call.piece.color = "white" THEN -1 ELSE 1
        startRank == IF call.piece.color = "white" THEN 6 ELSE 1
    IN  (/\ call.op = "isValidMove"
         /\ call.done
         /\ call.piece.type = "pawn"
         /\ call.to = <<call.from[1], call.from[2] + 2 * forward>>) =>
            IF call.from[2] = startRank
            THEN call.result <=> PieceAt(call.board, call.to) = Null
            ELSE ~call.result

\* isValidMove accepted the white pawn e2 going to e4 over the knight on e3.
C20_Witness ==
    /\ call.op = "isValidMove"
    /\ call.done
    /\ call.board = PawnBoard
    /\ call.piece.type = "pawn"
    /\ call.from = <<4, 6>>
    /\ call.to = <<4, 4>>
    /\ PieceAt(call.board, <<4, 5>>) # Null
    /\ call.result

\* C21: animation timing cannot affect the game. A step in which a pending
\* callback fires removes that callback's key from the animation set and
\* changes no GameState field, whatever happened since the callback was
\* scheduled (further moves, status passes, a reset); every key in the
\* animation set has a callback pending, and is eventually removed.
C21_CallbackStep ==
    Len(timers') < Len(timers) =>
        /\ gameState' = gameState
        /\ rendered' = rendered
        /\ effectPending' = effectPending
        /\ animatingPieces' = animatingPieces \ {Head(timers)}

C21_KeyHasCallback == \A k \in animatingPieces : InSeq(k, timers)

C21_EventuallyRemoved ==
    \A k \in ClickSquares : (k \in animatingPieces) ~> (k \notin animatingPieces)

C21_AnimationTiming ==
    /\ [][C21_CallbackStep]_vars
    /\ []C21_KeyHasCallback
    /\ C21_EventuallyRemoved

\* A move, a reset and the same move again: the callback of the first move
\* has fired after the reset and the second move and removed the key, and
\* the callback of the second move is still pending.
C21_Witness ==
    /\ Len(gameState.moveHistory) = 1
    /\ animatingPieces = {}
    /\ Len(timers) = 1
    /\ gameState.board[5][5] # Null

\* C22: in every state reachable from the initial state the king of the
\* player who is not to move is not attacked by a piece of currentPlayer: no
\* accepted move leaves the mover's own king in check.
C22_MoverKingSafe ==
    ~KingAttacked(gameState.board, Opponent(gameState.currentPlayer))

\* White, checked by the queen on h4 with its king on f2, has answered with
\* the pawn to g3; the pawn to g4 would have left the king attacked.
C22_Witness ==
    /\ Len(gameState.moveHistory) = 5
    /\ gameState.currentPlayer = "black"
    /\ ~effectPending
    /\ PieceAt(gameState.board, <<7, 4>>) # Null
    /\ PieceAt(gameState.board, <<7, 4>>).type = "queen"
    /\ PieceAt(gameState.board, <<5, 6>>) # Null
    /\ PieceAt(gameState.board, <<5, 6>>).type = "king"
    /\ PieceAt(gameState.board, <<6, 5>>) # Null
    /\ KingAttacked([gameState.board EXCEPT ![5][6] = Null], "white")

\* The squares of the board holding a king of color.
KingSquares(board, color) ==
    {sq \in Squares : /\ PieceAt(board, sq) # Null
                      /\ PieceAt(board, sq).type = "king"
                      /\ PieceAt(board, sq).color = color}

\* C23: in every state reachable from the initial state the board holds
\* exactly one white king and exactly one black king, and no king is in
\* capturedPieces.
C23_OneKingEach ==
    /\ \A color \in {"white", "black"} :
          Cardinality(KingSquares(gameState.board, color)) = 1
    /\ \A i \in 1..Len(gameState.capturedPieces) :
          gameState.capturedPieces[i].type # "king"

\* A king has left its square and a piece has been captured.
C23_Witness ==
    /\ \E sq \in KingSquares(gameState.board, "white") :
          PieceAt(gameState.board, sq).hasMoved
    /\ Len(gameState.capturedPieces) >= 1

\* The pieces of a state, each at most once: those of the board's cells and
\* the entries of capturedPieces.
Identity(piece) == <<piece.id, piece.type, piece.color>>

Occupied(board) == {sq \in Squares : PieceAt(board, sq) # Null}

\* The pieces on the board and in capturedPieces number 32, their ids are
\* pairwise distinct, and ids, types and colors are those of the initial
\* placement.
C24_Conserved ==
    LET captured == gameState.capturedPieces
        onBoard == Occupied(gameState.board)
        ids == {PieceAt(gameState.board, sq).id : sq \in onBoard}
                  \cup {captured[i].id : i \in 1..Len(captured)}
        identities == {Identity(PieceAt(gameState.board, sq)) : sq \in onBoard}
                         \cup {Identity(captured[i]) : i \in 1..Len(captured)}
    IN  /\ Cardinality(onBoard) + Len(captured) = 32
        /\ Cardinality(ids) = 32
        /\ identities = {Identity(PieceAt(initialBoard, sq)) : sq \in Occupied(initialBoard)}
        /\ Cardinality(Occupied(initialBoard)) = 32

\* A step that changes capturedPieces appends one piece to it, of the color
\* opposite to the player who moved.
C24_CaptureStep ==
    gameState'.capturedPieces # gameState.capturedPieces =>
        /\ Len(gameState'.capturedPieces) = Len(gameState.capturedPieces) + 1
        /\ IsPrefix(gameState.capturedPieces, gameState'.capturedPieces)
        /\ gameState'.capturedPieces[Len(gameState'.capturedPieces)].color
              = Opponent(gameState.currentPlayer)
        /\ gameState'.currentPlayer = Opponent(gameState.currentPlayer)

\* C24 as stated: piece conservation. In every reachable state the pieces on
\* the board and in capturedPieces are the 32 of the initial placement, each
\* once, with its initial type and color; every captured piece has the color
\* opposite to the player who captured it, and capturedPieces only ever grows
\* by appending.
C24_PieceConservation == []C24_Conserved /\ [][C24_CaptureStep]_vars

\* C24 as amended: the same, capturedPieces growing only by appending until
\* a reset, which empties it.
C24_ConservationUntilReset ==
    /\ []C24_Conserved
    /\ [][IF resetGame THEN gameState'.capturedPieces = <<>> ELSE C24_CaptureStep]_vars

\* White has captured on e5: a black pawn is in capturedPieces, a white pawn
\* that has moved stands on e5, and black is to move.
C24_Witness ==
    /\ Len(gameState.capturedPieces) = 1
    /\ gameState.capturedPieces[1].color = "black"
    /\ gameState.currentPlayer = "black"
    /\ PieceAt(gameState.board, <<4, 3>>) # Null
    /\ PieceAt(gameState.board, <<4, 3>>).color = "white"

\* The player of color is attacked and none of its pieces has a move that is
\* shape-legal and leaves its king not attacked.
Mated(board, color) ==
    /\ KingAttacked(board, color)
    /\ \A from \in Squares :
          (PieceAt(board, from) # Null /\ PieceAt(board, from).color = color) =>
              \A to \in Squares :
                  ~(/\ isValidMove(board, from, to, PieceAt(board, from))
                    /\ ~KingAttacked(AfterMove(board, from, to), color))

\* The fields a move changes.
Position(state) ==
    <<state.board, state.currentPlayer, state.capturedPieces, state.moveHistory>>

\* C25: once (board, currentPlayer) is a checkmate position no move is
\* accepted before a reset, also while the stored status is not checkmate
\* yet: activating any of the 64 squares leaves board, currentPlayer,
\* capturedPieces and moveHistory as they are, and so does every step other
\* than a reset, under every interleaving of activations and the status pass.
C25_NoActivationMoves ==
    Mated(gameState.board, gameState.currentPlayer) =>
        \A sq \in Squares :
            Position(activate(rendered.gameStatus, gameState, sq[1], sq[2])) = Position(gameState)

C25_Step ==
    (Position(gameState') # Position(gameState) /\ ~resetGame) =>
        ~Mated(gameState.board, gameState.currentPlayer)

C25_MatedStays == []C25_NoActivationMoves /\ [][C25_Step]_vars

\* White is mated, fewer moves are logged than are explored, the status
\* pass has not run yet (the stored status is playing), and an activation
\* processed before it has selected a white piece.
C25_Witness ==
    /\ Mated(gameState.board, gameState.currentPlayer)
    /\ Len(gameState.moveHistory) < MaxMateMoves
    /\ effectPending
    /\ gameState.gameStatus = "playing"
    /\ gameState.selectedPiece # NoSquare
    /\ gameState.validMoves = <<>>

====
